---------------------------- MODULE Spec2Model ----------------------------
(***************************************************************************)
(* Model of version-table/generate_version_table.py: the enumeration of    *)
(* branches, releases and tags, the retrieval and parsing of go.mod, and   *)
(* the assembly of the version table.                                      *)
(*                                                                         *)
(* A Python str is a sequence of one-character strings; an Optional value  *)
(* is a sequence of length at most one (None is the empty sequence).       *)
(***************************************************************************)
EXTENDS Integers, Sequences, FiniteSets, TLC

(***************************************************************************)
(* Bounds of the model.                                                    *)
(***************************************************************************)
\* Non-empty pages of branches the collaborator serves before the empty one.
MaxPages == 2
\* Length of the release and tag listings enumerated entry by entry.
MaxList == 1

(***************************************************************************)
(* Program constants.                                                      *)
(***************************************************************************)
\* releases[:10]
RELEASE_LIMIT == 10
\* tags[:20]
TAG_LIMIT == 20

(***************************************************************************)
(* String literals of the program and of the inputs.                       *)
(***************************************************************************)
S_main ==
    <<"m","a","i","n">>

S_1_0 ==
    <<"1",".","0">>

S_v1_0 ==
    <<"v","1",".","0">>

S_feature_x ==
    <<"f","e","a","t","u","r","e","-","x">>

S_v1_0_0 ==
    <<"v","1",".","0",".","0">>

S_release_4_18 ==
    <<"r","e","l","e","a","s","e","-","4",".","1","8">>

S_4_19 ==
    <<"4",".","1","9">>

S_release_ ==
    <<"r","e","l","e","a","s","e","-">>

REST_API_PATH ==
    <<"g","i","t","h","u","b",".","c","o","m","/","r","e","d","h","a","t",
      "-","c","n","e","/","r","e","s","t","-","a","p","i">>

SDK_GO_PATH ==
    <<"g","i","t","h","u","b",".","c","o","m","/","r","e","d","h","a","t",
      "-","c","n","e","/","s","d","k","-","g","o">>

NO_DATA ==
    <<"N","o"," ","v","e","r","s","i","o","n"," ","d","a","t","a"," ","f",
      "o","u","n","d",".">>

TABLE_HEADER ==
    <<"|"," ","c","l","o","u","d","-","e","v","e","n","t","-","p","r","o",
      "x","y"," ","|"," ","g","o","l","a","n","g"," ","|"," ","r","e","s",
      "t","-","a","p","i"," ","|"," ","s","d","k","-","g","o"," "," ","|",
      " ","n","o","t","e"," "," "," "," "," "," "," "," "," ","|","\n">>

TABLE_RULE ==
    <<"|"," ","-","-","-","-","-","-","-","-","-","-","-","-","-","-","-",
      "-","-"," ","|"," ","-","-","-","-","-","-"," ","|"," ","-","-","-",
      "-","-","-","-","-"," ","|"," ","-","-","-","-","-","-","-"," ","|",
      " ","-","-","-","-","-","-","-","-","-","-","-","-"," ","|","\n">>

M_none ==
    <<"m","o","d","u","l","e"," ","x","\n">>

M_go ==
    <<"m","o","d","u","l","e"," ","x","\n","g","o"," ","1",".","2","0","\n">>

M_deps ==
    <<"r","e","q","u","i","r","e"," ","(","\n","\t","g","i","t","h","u","b",
      ".","c","o","m","/","r","e","d","h","a","t","-","c","n","e","/","r",
      "e","s","t","-","a","p","i"," ","v","1",".","2",".","3","\n","\t","g",
      "i","t","h","u","b",".","c","o","m","/","r","e","d","h","a","t","-",
      "c","n","e","/","s","d","k","-","g","o"," ","v","0",".","1",".","0",
      "-","r","c","\n",")","\n">>

NOTE_text ==
    <<"G","A">>

ROW_main_1_20 ==
    <<"|"," ","m","a","i","n"," ","|"," ","1",".","2","0"," ","|"," "," ",
      "|"," "," ","|"," "," ","|","\n">>

(***************************************************************************)
(* Optional values and string helpers.                                     *)
(***************************************************************************)
None == <<>>

Some(x) == <<x>>

\* Python truthiness of an Optional[str]: neither None nor ''.
Truthy(opt) == opt # None /\ opt[1] # <<>>

\* `x or ''`
OrEmpty(opt) == IF Truthy(opt) THEN opt[1] ELSE <<>>

\* The characters \d of the re module matches in a str pattern (Unicode
\* decimal digits, category Nd), as far as a string of this module can hold
\* them: the ASCII digits and 180 digits of other scripts.
DecimalDigits ==
    {"0", "1", "2", "3", "4", "5", "6", "7", "8", "9",
     "۰", "۱", "۲", "۳", "۴", "۵", "۶", "۷", "۸", "۹",
     "߀", "߁", "߂", "߃", "߄", "߅", "߆", "߇", "߈", "߉",
     "০", "১", "২", "৩", "৪", "৫", "৬", "৭", "৮", "৯",
     "૦", "૧", "૨", "૩", "૪", "૫", "૬", "૭", "૮", "૯",
     "௦", "௧", "௨", "௩", "௪", "௫", "௬", "௭", "௮", "௯",
     "೦", "೧", "೨", "೩", "೪", "೫", "೬", "೭", "೮", "೯",
     "෦", "෧", "෨", "෩", "෪", "෫", "෬", "෭", "෮", "෯",
     "໐", "໑", "໒", "໓", "໔", "໕", "໖", "໗", "໘", "໙",
     "႐", "႑", "႒", "႓", "႔", "႕", "႖", "႗", "႘", "႙",
     "០", "១", "២", "៣", "៤", "៥", "៦", "៧", "៨", "៩",
     "᧐", "᧑", "᧒", "᧓", "᧔", "᧕", "᧖", "᧗", "᧘", "᧙",
     "᪀", "᪁", "᪂", "᪃", "᪄", "᪅", "᪆", "᪇", "᪈", "᪉",
     "᪐", "᪑", "᪒", "᪓", "᪔", "᪕", "᪖", "᪗", "᪘", "᪙",
     "᮰", "᮱", "᮲", "᮳", "᮴", "᮵", "᮶", "᮷", "᮸", "᮹",
     "꣐", "꣑", "꣒", "꣓", "꣔", "꣕", "꣖", "꣗", "꣘", "꣙",
     "꧐", "꧑", "꧒", "꧓", "꧔", "꧕", "꧖", "꧗", "꧘", "꧙",
     "꧰", "꧱", "꧲", "꧳", "꧴", "꧵", "꧶", "꧷", "꧸", "꧹",
     "꯰", "꯱", "꯲", "꯳", "꯴", "꯵", "꯶", "꯷", "꯸", "꯹"}

IsDigit(c) == c \in DecimalDigits

IsDigitOrDot(c) == IsDigit(c) \/ c = "."

\* The characters \s of the re module matches in a str pattern
\* (str.isspace), as far as a string of this module can hold them: space,
\* TAB, LF, CR, FF, then VT, FS, GS, RS, US, NEL, NBSP and U+1680, written
\* as the characters themselves.
Whitespace ==
    {" ", "\t", "\n", "\r", "\f", "", "", "", "", "", "", " ", " "}

IsSpace(c) == c \in Whitespace

\* The index of the last character of the longest run of digits that starts
\* at index i of s, or i - 1 if the run is empty (a greedy \d* from i).
DigitsEnd(s, i) ==
    CHOOSE j \in (i - 1)..Len(s) :
        /\ \A k \in i..j : IsDigit(s[k])
        /\ j = Len(s) \/ ~IsDigit(s[j + 1])

\* The same for a run of digits and dots (a greedy [\d\.]* from i).
DigitsDotsEnd(s, i) ==
    CHOOSE j \in (i - 1)..Len(s) :
        /\ \A k \in i..j : IsDigitOrDot(s[k])
        /\ j = Len(s) \/ ~IsDigitOrDot(s[j + 1])

\* The same for a run of whitespace (a greedy \s* from i).
SpacesEnd(s, i) ==
    CHOOSE j \in (i - 1)..Len(s) :
        /\ \A k \in i..j : IsSpace(s[k])
        /\ j = Len(s) \/ ~IsSpace(s[j + 1])

\* s[i:] starts with the literal lit (i is 1-based).
StartsWithAt(s, i, lit) ==
    /\ i + Len(lit) - 1 <= Len(s)
    /\ \A k \in 1..Len(lit) : s[i + k - 1] = lit[k]

Min(a, b) == IF a <= b THEN a ELSE b

(***************************************************************************)
(* parse_go_mod: the three regular expressions.                            *)
(***************************************************************************)
\* r'^go\s+(\d+\.\d+(?:\.\d+)?)' with re.MULTILINE, tried at index p: the
\* index of the last character of the match, or 0 when it does not match at p.
GoMatchEnd(s, p) ==
    IF ~((p = 1 \/ s[p - 1] = "\n") /\ StartsWithAt(s, p, <<"g","o">>))
    THEN 0
    ELSE LET a == SpacesEnd(s, p + 2)
             b == DigitsEnd(s, a + 1)
             c == DigitsEnd(s, b + 2)
             d == DigitsEnd(s, c + 2)
         IN  IF ~(a >= p + 2 /\ b >= a + 1 /\ b + 1 <= Len(s))      THEN 0
             ELSE IF ~(s[b + 1] = "." /\ c >= b + 2)                THEN 0
             ELSE IF c + 1 <= Len(s) /\ s[c + 1] = "." /\ d >= c + 2 THEN d
             ELSE c

\* group(1) of the go directive's match at p.
GoGroup(s, p) ==
    SubSeq(s, SpacesEnd(s, p + 2) + 1, GoMatchEnd(s, p))

\* re.search of the go directive: Some(group(1)) of the leftmost match, or None.
SearchGo(s) ==
    LET hits == {p \in 1..Len(s) : GoMatchEnd(s, p) > 0}
    IN  IF hits = {} THEN None
        ELSE LET p == CHOOSE q \in hits : \A r \in hits : q <= r
             IN  Some(GoGroup(s, p))

\* path\s+(v[\d\.]+) tried at index p: the index of the last character of the
\* match, or 0 when it does not match at p.
DepMatchEnd(s, p, path) ==
    IF ~StartsWithAt(s, p, path) THEN 0
    ELSE LET a == SpacesEnd(s, p + Len(path))
             e == DigitsDotsEnd(s, a + 2)
         IN  IF a >= p + Len(path) /\ a + 1 <= Len(s) /\ s[a + 1] = "v" /\ e >= a + 2
             THEN e ELSE 0

\* re.search of a dependency line: Some(group(1)) of the leftmost match, or None.
SearchDep(s, path) ==
    LET hits == {p \in 1..Len(s) : DepMatchEnd(s, p, path) > 0}
    IN  IF hits = {} THEN None
        ELSE LET p == CHOOSE q \in hits : \A r \in hits : q <= r
             IN  Some(SubSeq(s, SpacesEnd(s, p + Len(path)) + 1,
                             DepMatchEnd(s, p, path)))

\* parse_go_mod(content): content is an Optional[str]; the result is the
\* triple (golang_version, rest_api_version, sdk_go_version) of Optionals.
parse_go_mod(content) ==
    IF ~Truthy(content) THEN <<None, None, None>>
    ELSE <<SearchGo(content[1]),
           SearchDep(content[1], REST_API_PATH),
           SearchDep(content[1], SDK_GO_PATH)>>

\* Fault for C9: the record is appended whatever was extracted.
HasVersion_always(vers) == TRUE

\* `golang_ver or rest_api_ver or sdk_go_ver`
HasVersion(vers) == Truthy(vers[1]) \/ Truthy(vers[2]) \/ Truthy(vers[3])

(***************************************************************************)
(* normalize_version_name and the tag allow-pattern.                       *)
(***************************************************************************)
\* Fault for C2: the leading 'v' is kept.
normalize_version_name_keep(tag_name) == tag_name

normalize_version_name(tag_name) ==
    IF tag_name # <<>> /\ Head(tag_name) = "v" THEN Tail(tag_name) ELSE tag_name

\* `$` without re.MULTILINE at index i (the next character to read): at the
\* end of the string, or before a newline that ends the string.
AtDollar(s, i) == i = Len(s) + 1 \/ (i = Len(s) /\ s[i] = "\n")

\* One alternative of the allow-pattern of the shape prefix[\d\.]+$ where the
\* prefix has already been read and the run starts at index i.
RunThenDollar(s, i) ==
    LET e == DigitsDotsEnd(s, i) IN e >= i /\ AtDollar(s, e + 1)

\* 4\.\d+$
FourDotDigits(s) ==
    /\ StartsWithAt(s, 1, <<"4", ".">>)
    /\ LET e == DigitsEnd(s, 3) IN e >= 3 /\ AtDollar(s, e + 1)

\* re.match(r'^(v?[\d\.]+|release-[\d\.]+|4\.\d+)$', tag_name)
TagAllowed(tag_name) ==
    \/ StartsWithAt(tag_name, 1, <<"v">>) /\ RunThenDollar(tag_name, 2)
    \/ RunThenDollar(tag_name, 1)
    \/ StartsWithAt(tag_name, 1, S_release_) /\ RunThenDollar(tag_name, 9)
    \/ FourDotDigits(tag_name)

(***************************************************************************)
(* Inputs: what the HTTP collaborator and the notes file can hold.         *)
(***************************************************************************)
\* Names of the branches the collaborator lists.
BranchNames == {S_main, S_1_0}

\* Names of the releases the collaborator lists entry by entry.
ReleaseNames == {S_v1_0}

\* Names of the tags the collaborator lists entry by entry.
TagNames == {S_v1_0}

\* k copies of the name f.
Fill(k, f) == [j \in 1..k |-> f]

\* Listings of at most MaxList entries over the names.
ShortListings(names) == UNION {[1..k -> names] : k \in 0..MaxList}

\* A listing that reaches past the slice taken from it: the name S_main,
\* limit - 2 copies of the name f, the name n at position limit and the name
\* S_4_19 at position limit + 1.
LongListing(limit, f, n) == <<S_main>> \o Fill(limit - 2, f) \o <<n, S_4_19>>

\* JSON of /releases: the tag_name of each release, in listing order.
ReleaseListings == ShortListings(ReleaseNames) \cup {LongListing(RELEASE_LIMIT, S_1_0, S_v1_0)}

\* JSON of /tags: the name of each tag, in listing order.
TagListings == ShortListings(TagNames) \cup {LongListing(TAG_LIMIT, S_feature_x, S_1_0)}

\* Texts of go.mod.
Manifests == {M_none, M_go, M_deps}

\* Responses to GET contents/go.mod?ref=...: a failed request, or the JSON
\* body with its encoding marker and content field (for base64 the field is
\* written here as the text it decodes to; content = None is a missing key).
ManifestResponses ==
    {[ok |-> FALSE, encoding |-> "none", content |-> None]}
    \cup {[ok |-> TRUE, encoding |-> "base64", content |-> Some(m)] : m \in {M_go, M_deps}}
    \cup {[ok |-> TRUE, encoding |-> "base64", content |-> None]}
    \cup {[ok |-> TRUE, encoding |-> "none", content |-> Some(M_none)]}

\* What load_version_notes returns, ref name -> note: the empty dict (the
\* file is missing, unreadable, empty or has no line of two fields), or the
\* dict of a file with the line "v1.0 GA".
NotesMaps == {[n \in {} |-> <<>>], [n \in {S_v1_0} |-> NOTE_text]}

(***************************************************************************)
(* Helpers of the orchestration.                                           *)
(***************************************************************************)
\* The KeyError that content_data['content'] raises on a missing key; no
\* handler of the program catches it.
KeyError ==
    <<<<"K", "e", "y", "E", "r", "r", "o", "r">>,
      <<"c", "o", "n", "t", "e", "n", "t">>>>

\* get_go_mod_content: None on a request failure, else the decoded text; a
\* body marked base64 that has no content field raises KeyError.
get_go_mod_content(resp) ==
    IF ~resp.ok THEN None
    ELSE IF resp.encoding = "base64"
         THEN IF resp.content = None THEN KeyError ELSE resp.content
    ELSE IF resp.content = None THEN Some(<<>>)
    ELSE resp.content

\* Fault for C5: the pages received before the failure are returned.
BranchesOnError_partial(acc) == acc

\* What get_branches returns when a page request raises.
BranchesOnError(acc) == <<>>

\* version_notes.get(name, '')
NotesGet(notes, name) == IF name \in DOMAIN notes THEN notes[name] ELSE <<>>

\* Fault for C8: the release listing is not sliced.
ReleaseSlice_all(s) == s

\* releases[:10]
ReleaseSlice(s) == SubSeq(s, 1, Min(RELEASE_LIMIT, Len(s)))

\* tags[:20]
TagSlice(s) == SubSeq(s, 1, Min(TAG_LIMIT, Len(s)))

\* Fault for C1: the membership test never skips a ref.
AlreadyProcessed_never(name, processed) == FALSE

\* `name in processed_refs`
AlreadyProcessed(name, processed) == name \in processed

\* Fault for C10: the ref is not added to processed_refs.
MarkProcessed_dropped(processed, name) == processed

\* processed_refs.add(name) at the end of a loop body.
MarkProcessed(processed, name) == processed \cup {name}

\* Fault for C7: 'main' is not added to processed_refs.
MarkMain_dropped(processed) == processed

\* processed_refs.add('main') after the main phase.
MarkMain(processed) == processed \cup {S_main}

\* Fault for C3: the record is inserted at the front.
AppendRecord_front(data, entry) == <<entry>> \o data

\* version_data.append(entry)
AppendRecord(data, entry) == Append(data, entry)

\* The dict appended for a ref.
Entry(display, vers, note) ==
    [proxy_version |-> display,
     golang        |-> OrEmpty(vers[1]),
     rest_api      |-> OrEmpty(vers[2]),
     sdk_go        |-> OrEmpty(vers[3]),
     note          |-> note]

\* One row of the table.
FormatRow(e) ==
    <<"|", " ">> \o e.proxy_version \o <<" ", "|", " ">> \o e.golang
    \o <<" ", "|", " ">> \o e.rest_api \o <<" ", "|", " ">> \o e.sdk_go
    \o <<" ", "|", " ">> \o e.note \o <<" ", "|", "\n">>

RECURSIVE FormatRows(_)
FormatRows(data) ==
    IF data = <<>> THEN <<>> ELSE FormatRow(Head(data)) \o FormatRows(Tail(data))

\* Fault for C6: the first record is left out of the table.
Render_short(data) ==
    IF data = <<>> THEN NO_DATA
    ELSE TABLE_HEADER \o TABLE_RULE \o FormatRows(Tail(data))

\* The string generate_version_table returns.
Render(data) ==
    IF data = <<>> THEN NO_DATA
    ELSE TABLE_HEADER \o TABLE_RULE \o FormatRows(data)

(***************************************************************************)
(* State.                                                                  *)
(***************************************************************************)
VARIABLES
    pc,             \* position of the run
    page,           \* get_branches: page
    all_branches,   \* get_branches: all_branches
    branches,       \* generate_version_table: branches
    releases,       \* generate_version_table: releases
    tags,           \* generate_version_table: tags
    version_notes,  \* generate_version_table: version_notes
    version_data,   \* generate_version_table: version_data
    processed_refs, \* generate_version_table: processed_refs
    idx,            \* position of the running for loop in its listing
    result,         \* main: table (Optional)
    stdout,         \* what main has printed to standard output
    status,         \* history: outcome of each listing ("none", "ok", "fail")
    origin,         \* history: raw name, phase and position behind each record
    requests        \* history: the go.mod requests made, in order

vars == <<pc, page, all_branches, branches, releases, tags,
          version_notes, version_data, processed_refs, idx, result, stdout,
          status, origin, requests>>

listing_vars == <<page, all_branches, branches, releases, tags,
                  version_notes, status>>

table_vars == <<version_data, processed_refs, origin, requests>>

Init ==
    /\ pc = "get_branches"
    /\ page = 1
    /\ all_branches = <<>>
    /\ branches = <<>>
    /\ releases = <<>>
    /\ tags = <<>>
    /\ version_notes = [n \in {} |-> <<>>]
    /\ version_data = <<>>
    /\ processed_refs = {}
    /\ idx = 0
    /\ result = None
    /\ stdout = <<>>
    /\ status = [branches |-> "none", releases |-> "none", tags |-> "none"]
    /\ origin = <<>>
    /\ requests = <<>>

(***************************************************************************)
(* Ref enumeration.                                                        *)
(***************************************************************************)
\* One iteration of the paging loop of get_branches: the request fails, or
\* the page is empty and all_branches is returned, or the page is added.
\* The loop of the source has no bound on page; the runs followed here
\* receive at most MaxPages non-empty pages.
GetBranchesPage ==
    /\ pc = "get_branches"
    /\ \/ /\ branches' = BranchesOnError(all_branches)
          /\ status' = [status EXCEPT !.branches = "fail"]
          /\ all_branches' = <<>>
          /\ pc' = "get_releases"
          /\ UNCHANGED page
       \/ /\ branches' = all_branches
          /\ status' = [status EXCEPT !.branches = "ok"]
          /\ all_branches' = <<>>
          /\ pc' = "get_releases"
          /\ UNCHANGED page
       \/ /\ page <= MaxPages
          /\ \E n \in BranchNames : all_branches' = all_branches \o <<n>>
          /\ page' = page + 1
          /\ UNCHANGED <<pc, branches, status>>
    /\ UNCHANGED <<releases, tags, version_notes, idx, result, stdout>>
    /\ UNCHANGED table_vars

\* get_releases: the request fails, or its JSON is returned. (The dict
\* tag_to_release built from it on line 144 is never read.)
GetReleases ==
    /\ pc = "get_releases"
    /\ \/ /\ releases' = <<>>
          /\ status' = [status EXCEPT !.releases = "fail"]
       \/ /\ \E l \in ReleaseListings : releases' = l
          /\ status' = [status EXCEPT !.releases = "ok"]
    /\ pc' = "get_tags"
    /\ UNCHANGED <<page, all_branches, branches, tags, version_notes,
                   idx, result, stdout>>
    /\ UNCHANGED table_vars

\* get_tags: the request fails, or its JSON is returned.
GetTags ==
    /\ pc = "get_tags"
    /\ \/ /\ tags' = <<>>
          /\ status' = [status EXCEPT !.tags = "fail"]
       \/ /\ \E l \in TagListings : tags' = l
          /\ status' = [status EXCEPT !.tags = "ok"]
    /\ pc' = "load_notes"
    /\ UNCHANGED <<page, all_branches, branches, releases,
                   version_notes, idx, result, stdout>>
    /\ UNCHANGED table_vars

\* load_version_notes
LoadNotes ==
    /\ pc = "load_notes"
    /\ \E m \in NotesMaps : version_notes' = m
    /\ pc' = "main_phase"
    /\ UNCHANGED <<page, all_branches, branches, releases, tags,
                   idx, result, stdout, status>>
    /\ UNCHANGED table_vars

(***************************************************************************)
(* Table assembly.                                                         *)
(***************************************************************************)
\* The block every phase runs for a ref it fetches: request go.mod, parse
\* it, append a record if a version was found, mark the ref (marked is
\* processed_refs after the add) and go on at next_pc, next_idx. pos is the
\* position of the ref in the listing of the phase. A KeyError raised by
\* get_go_mod_content propagates through generate_version_table and main:
\* the run dies with nothing printed to standard output.
Fetch(ref, display, note, phase, pos, resp, marked, next_pc, next_idx) ==
    LET content == get_go_mod_content(resp)
    IN  /\ requests' = Append(requests,
              [ref |-> ref, phase |-> phase, idx |-> pos, content |-> content])
        /\ IF content = KeyError
           THEN /\ pc' = "crashed"
                /\ UNCHANGED <<version_data, origin, processed_refs, idx>>
           ELSE /\ LET vers == parse_go_mod(content)
                   IN  IF HasVersion(vers)
                       THEN /\ version_data' =
                                  AppendRecord(version_data, Entry(display, vers, note))
                            /\ origin' = Append(origin,
                                  [raw |-> ref, phase |-> phase, idx |-> pos])
                       ELSE UNCHANGED <<version_data, origin>>
                /\ processed_refs' = marked
                /\ pc' = next_pc
                /\ idx' = next_idx

\* Lines 150-161: the main branch.
MainPhase ==
    /\ pc = "main_phase"
    /\ \E resp \in ManifestResponses :
          Fetch(S_main, S_main, <<>>, "main", 1, resp,
                MarkMain(processed_refs), "branch_phase", 1)
    /\ UNCHANGED <<result, stdout>>
    /\ UNCHANGED listing_vars

\* Lines 165-182: one iteration of `for branch in branches`, or its end.
BranchPhase ==
    /\ pc = "branch_phase"
    /\ \/ /\ idx > Len(branches)
          /\ pc' = "release_phase"
          /\ idx' = 1
          /\ UNCHANGED table_vars
       \/ /\ idx <= Len(branches)
          /\ AlreadyProcessed(branches[idx], processed_refs)
          /\ idx' = idx + 1
          /\ UNCHANGED <<pc, table_vars>>
       \/ /\ idx <= Len(branches)
          /\ ~AlreadyProcessed(branches[idx], processed_refs)
          /\ LET branch_name == branches[idx]
             IN  \E resp \in ManifestResponses :
                    Fetch(branch_name, branch_name,
                          NotesGet(version_notes, branch_name), "branch", idx, resp,
                          MarkProcessed(processed_refs, branch_name), pc, idx + 1)
    /\ UNCHANGED <<result, stdout>>
    /\ UNCHANGED listing_vars

\* Lines 186-203: one iteration of `for release in releases[:10]`, or its end.
ReleasePhase ==
    /\ pc = "release_phase"
    /\ \/ /\ idx > Len(ReleaseSlice(releases))
          /\ pc' = "tag_phase"
          /\ idx' = 1
          /\ UNCHANGED table_vars
       \/ /\ idx <= Len(ReleaseSlice(releases))
          /\ AlreadyProcessed(ReleaseSlice(releases)[idx], processed_refs)
          /\ idx' = idx + 1
          /\ UNCHANGED <<pc, table_vars>>
       \/ /\ idx <= Len(ReleaseSlice(releases))
          /\ ~AlreadyProcessed(ReleaseSlice(releases)[idx], processed_refs)
          /\ LET tag_name == ReleaseSlice(releases)[idx]
             IN  \E resp \in ManifestResponses :
                    Fetch(tag_name, normalize_version_name(tag_name),
                          NotesGet(version_notes, tag_name), "release", idx, resp,
                          MarkProcessed(processed_refs, tag_name), pc, idx + 1)
    /\ UNCHANGED <<result, stdout>>
    /\ UNCHANGED listing_vars

\* Lines 207-228: one iteration of `for tag in tags[:20]`, or its end.
TagPhase ==
    /\ pc = "tag_phase"
    /\ \/ /\ idx > Len(TagSlice(tags))
          /\ pc' = "render"
          /\ idx' = 0
          /\ UNCHANGED table_vars
       \/ /\ idx <= Len(TagSlice(tags))
          /\ AlreadyProcessed(TagSlice(tags)[idx], processed_refs)
          /\ idx' = idx + 1
          /\ UNCHANGED <<pc, table_vars>>
       \/ /\ idx <= Len(TagSlice(tags))
          /\ ~AlreadyProcessed(TagSlice(tags)[idx], processed_refs)
          /\ ~TagAllowed(TagSlice(tags)[idx])
          /\ idx' = idx + 1
          /\ UNCHANGED <<pc, table_vars>>
       \/ /\ idx <= Len(TagSlice(tags))
          /\ ~AlreadyProcessed(TagSlice(tags)[idx], processed_refs)
          /\ TagAllowed(TagSlice(tags)[idx])
          /\ LET tag_name == TagSlice(tags)[idx]
             IN  \E resp \in ManifestResponses :
                    Fetch(tag_name, normalize_version_name(tag_name),
                          NotesGet(version_notes, tag_name), "tag", idx, resp,
                          MarkProcessed(processed_refs, tag_name), pc, idx + 1)
    /\ UNCHANGED <<result, stdout>>
    /\ UNCHANGED listing_vars

\* Lines 231-242: generate_version_table returns the sentinel or the table.
RenderTable ==
    /\ pc = "render"
    /\ result' = Some(Render(version_data))
    /\ pc' = "print"
    /\ UNCHANGED <<idx, stdout>>
    /\ UNCHANGED listing_vars
    /\ UNCHANGED table_vars

\* Line 252: print(table)
PrintTable ==
    /\ pc = "print"
    /\ stdout' = Append(stdout, result[1])
    /\ pc' = "done"
    /\ UNCHANGED <<idx, result>>
    /\ UNCHANGED listing_vars
    /\ UNCHANGED table_vars

Next ==
    \/ GetBranchesPage
    \/ GetReleases
    \/ GetTags
    \/ LoadNotes
    \/ MainPhase
    \/ BranchPhase
    \/ ReleasePhase
    \/ TagPhase
    \/ RenderTable
    \/ PrintTable

Spec == Init /\ [][Next]_vars
(***************************************************************************)
(* Vocabulary of the properties.                                           *)
(***************************************************************************)
PhaseRank(ph) ==
    CASE ph = "main" -> 0 [] ph = "branch" -> 1 [] ph = "release" -> 2 [] ph = "tag" -> 3

Phases == {"main", "branch", "release", "tag"}

InSeq(x, s) == \E k \in DOMAIN s : s[k] = x

\* The listings have been fetched and the main phase is over.
PastMain == pc \in {"branch_phase", "release_phase", "tag_phase", "render", "print", "done"}

\* The main phase has not yet requested go.mod.
BeforeMain == pc \in {"get_branches", "get_releases", "get_tags", "load_notes", "main_phase"}

\* The listing a phase iterates over, as the source slices it: its length
\* and its entry at position k.
PhaseLen(ph) ==
    CASE ph = "main"    -> 1
      [] ph = "branch"  -> Len(branches)
      [] ph = "release" -> Min(10, Len(releases))
      [] ph = "tag"     -> Min(20, Len(tags))

PhaseAt(ph, k) ==
    CASE ph = "main"    -> S_main
      [] ph = "branch"  -> branches[k]
      [] ph = "release" -> releases[k]
      [] ph = "tag"     -> tags[k]

\* The phase visits the raw name: it is in the phase's listing and, for a
\* tag, it matches the allow-pattern.
Reaches(ph, name) ==
    /\ \E k \in 1..PhaseLen(ph) : PhaseAt(ph, k) = name
    /\ ph = "tag" => TagAllowed(name)

\* The lines of a text, each with its terminating newline.
RECURSIVE Lines(_)
Lines(s) ==
    IF s = <<>> THEN <<>>
    ELSE IF ~InSeq("\n", s) THEN <<s>>
    ELSE LET k == CHOOSE q \in DOMAIN s : s[q] = "\n" /\ \A r \in 1..(q - 1) : s[r] # "\n"
         IN  <<SubSeq(s, 1, k)>> \o Lines(SubSeq(s, k + 1, Len(s)))

\* The pieces of s between occurrences of " | ".
RECURSIVE SplitCells(_)
SplitCells(s) ==
    LET hits == {q \in 1..(Len(s) - 2) : s[q] = " " /\ s[q + 1] = "|" /\ s[q + 2] = " "}
    IN  IF hits = {} THEN <<s>>
        ELSE LET k == CHOOSE q \in hits : \A r \in hits : q <= r
             IN  <<SubSeq(s, 1, k - 1)>> \o SplitCells(SubSeq(s, k + 3, Len(s)))

\* The cells of a table line "| a | b | c |\n".
Cells(line) == SplitCells(SubSeq(line, 3, Len(line) - 3))

\* The data rows of the returned table, as sequences of cells.
DataRows ==
    IF result = None \/ result = Some(NO_DATA) THEN <<>>
    ELSE LET ls == Lines(SubSeq(result[1], Len(TABLE_HEADER) + Len(TABLE_RULE) + 1,
                                Len(result[1])))
         IN  [k \in 1..Len(ls) |-> Cells(ls[k])]

\* The displayed name the specification gives a record of that origin.
Displayed(o) ==
    IF o.phase \in {"release", "tag"} /\ o.raw # <<>> /\ Head(o.raw) = "v"
    THEN Tail(o.raw) ELSE o.raw

\* generate_version_table has returned and main has printed.
Returned == pc = "done"

\* What get_go_mod_content can return that holds no version: None (the
\* request failed), the empty text, a go.mod that matches no pattern.
NoVersionContents == {None, Some(<<>>), Some(M_none)}

\* The records appended so far: no two from the same raw name, each from the
\* earliest phase that visits its name and from the first position of the
\* name in that phase's listing.
C1_Records ==
    /\ Len(origin) = Len(version_data)
    /\ \A i, j \in DOMAIN origin : origin[i].raw = origin[j].raw => i = j
    /\ \A i \in DOMAIN origin :
          LET o == origin[i]
          IN  /\ Reaches(o.phase, o.raw)
              /\ \A ph \in Phases : Reaches(ph, o.raw) => PhaseRank(o.phase) <= PhaseRank(ph)
              /\ o.idx \in 1..PhaseLen(o.phase)
              /\ PhaseAt(o.phase, o.idx) = o.raw
              /\ \A k \in 1..(o.idx - 1) : PhaseAt(o.phase, k) # o.raw

(***************************************************************************)
(* C1: at most one record is appended per raw ref name, by the earliest    *)
(* phase (main, branch, release, tag) that visits the name, at the first   *)
(* position of the name in that phase's listing; a record, once appended,  *)
(* never changes: a later occurrence of the name is skipped.               *)
(***************************************************************************)
C1_FirstWriteWins ==
    /\ []C1_Records
    /\ [][/\ Len(version_data') >= Len(version_data)
          /\ SubSeq(version_data', 1, Len(version_data)) = version_data]_vars

\* A branch that is also a release and a name listed twice as a branch:
\* one record each, from the branch phase.
C1_Witness ==
    /\ pc = "done"
    /\ \E i \in DOMAIN origin :
          /\ origin[i].phase = "branch"
          /\ InSeq(origin[i].raw, releases)
    /\ \E a, b \in DOMAIN branches : a # b /\ branches[a] = branches[b]

(***************************************************************************)
(* C2 as stated: no two data rows of the returned table have the same      *)
(* value in the first column.                                              *)
(***************************************************************************)
C2_DistinctDisplayed ==
    Returned =>
        LET rows == DataRows
        IN  \A i, j \in DOMAIN rows : rows[i][1] = rows[j][1] => i = j

(***************************************************************************)
(* C2 as amended: no two data rows come from the same raw name; the first  *)
(* column of a release or tag row is its raw name with one leading 'v'     *)
(* removed, that of a main or branch row is its raw name; two rows have    *)
(* the same first column only if one raw name is 'v' followed by the       *)
(* other.                                                                  *)
(***************************************************************************)
C2_DistinctRaw ==
    Returned =>
        LET rows == DataRows
        IN  /\ Len(rows) = Len(origin)
            /\ \A i \in DOMAIN rows : rows[i][1] = Displayed(origin[i])
            /\ \A i, j \in DOMAIN rows :
                  i # j =>
                     /\ origin[i].raw # origin[j].raw
                     /\ rows[i][1] = rows[j][1] =>
                           \/ origin[i].raw = <<"v">> \o origin[j].raw
                           \/ origin[j].raw = <<"v">> \o origin[i].raw

\* Two rows of the returned table show the same name.
C2_Witness ==
    /\ pc = "done"
    /\ LET rows == DataRows
       IN  \E i, j \in DOMAIN rows : i # j /\ rows[i][1] = rows[j][1]

(***************************************************************************)
(* C3: the records, and the data rows of the returned table, are in phase  *)
(* order (main, branches, releases, tags) and, within a phase, in the      *)
(* order of the phase's listing.                                           *)
(***************************************************************************)
C3_PhaseOrder ==
    /\ Len(origin) = Len(version_data)
    /\ \A i \in DOMAIN origin : version_data[i].proxy_version = Displayed(origin[i])
    /\ \A i, j \in DOMAIN origin :
          i < j =>
             \/ PhaseRank(origin[i].phase) < PhaseRank(origin[j].phase)
             \/ /\ origin[i].phase = origin[j].phase
                /\ origin[i].idx < origin[j].idx
    /\ Returned =>
          LET rows == DataRows
          IN  /\ Len(rows) = Len(version_data)
              /\ \A i \in DOMAIN rows : rows[i][1] = version_data[i].proxy_version

\* A table with rows of three phases.
C3_Witness ==
    /\ pc = "done"
    /\ Len(origin) >= 3
    /\ {origin[i].phase : i \in DOMAIN origin} = {"main", "branch", "release"}

(***************************************************************************)
(* C4: whatever the collaborator answers, a run that has stopped (no step  *)
(* of the program is left to take) has returned from main having printed   *)
(* exactly one result.                                                     *)
(***************************************************************************)
C4_Terminates == (~ENABLED Next) => (pc = "done" /\ Len(stdout) = 1)

(***************************************************************************)
(* C5: a listing whose request failed is empty (for branches also when     *)
(* earlier pages had been received), and the run still fetches main and    *)
(* visits every entry of the other listings.                               *)
(***************************************************************************)
C5_Degrades ==
    /\ status.branches = "fail" => branches = <<>>
    /\ status.releases = "fail" => releases = <<>>
    /\ status.tags = "fail" => tags = <<>>
    /\ pc = "done" =>
          /\ requests # <<>> /\ requests[1].ref = S_main
          /\ \A ph \in Phases : \A k \in 1..PhaseLen(ph) :
                (ph = "tag" => TagAllowed(PhaseAt(ph, k)))
                   => PhaseAt(ph, k) \in processed_refs

\* The branch request failed after a page had been received, and the
\* release and tag listings were still processed.
C5_Witness ==
    /\ pc = "done"
    /\ status.branches = "fail" /\ page > 1
    /\ \E i, j \in DOMAIN origin : origin[i].phase = "release" /\ origin[j].phase = "tag"

(***************************************************************************)
(* C6: the returned string is the sentinel exactly when no record was      *)
(* appended; otherwise it is the two header lines followed by one row per  *)
(* record, in order.                                                       *)
(***************************************************************************)
C6_SentinelOrTable ==
    pc \in {"print", "done"} =>
        /\ result # None
        /\ result[1] = NO_DATA <=> Len(origin) = 0
        /\ Len(origin) > 0 =>
              LET ls == Lines(result[1])
              IN  /\ Len(ls) = 2 + Len(origin)
                  /\ ls[1] = TABLE_HEADER
                  /\ ls[2] = TABLE_RULE
                  /\ \A i \in DOMAIN version_data : ls[i + 2] = FormatRow(version_data[i])

\* Only main has a go.mod, with a go directive 1.20: the table printed has
\* the one row | main | 1.20 |  |  |  |.
C6_Witness ==
    /\ pc = "done"
    /\ branches = <<>> /\ releases = <<>> /\ tags = <<>>
    /\ stdout = <<TABLE_HEADER \o TABLE_RULE \o ROW_main_1_20>>

(***************************************************************************)
(* C7: the first go.mod requested is that of main; main is requested once  *)
(* and is in processed_refs from the end of the main phase on; when its    *)
(* request fails or yields no version, no record comes from the ref main.  *)
(***************************************************************************)
C7_MainFirst ==
    /\ requests # <<>> =>
          /\ requests[1].ref = S_main
          /\ requests[1].phase = "main"
          /\ \A k \in DOMAIN requests : k > 1 => requests[k].ref # S_main
          /\ requests[1].content \in NoVersionContents =>
                \A i \in DOMAIN origin : origin[i].raw # S_main
    /\ PastMain => S_main \in processed_refs /\ requests # <<>>
    /\ BeforeMain => requests = <<>>

\* The request for main failed, main is listed as a branch and as a release
\* and a tag, and the table has rows, none of them from main.
C7_Witness ==
    /\ pc = "done"
    /\ requests[1].content = None
    /\ InSeq(S_main, branches) /\ InSeq(S_main, releases) /\ InSeq(S_main, tags)
    /\ origin # <<>>

(***************************************************************************)
(* C8: a release's go.mod is requested only for one of the first 10        *)
(* entries of the release listing, a tag's only for one of the first 20    *)
(* entries of the tag listing whose raw name matches the allow-pattern; no *)
(* record comes from feature-x; v1.0.0, release-4.18 and 4.19 match the    *)
(* pattern and feature-x does not (a fact about the pattern alone, which   *)
(* is evaluated once per run, when the tags are listed).                   *)
(***************************************************************************)
C8_Slices ==
    /\ \A k \in DOMAIN requests :
          LET r == requests[k]
          IN  /\ r.phase = "release" =>
                    r.idx <= 10 /\ r.idx <= Len(releases) /\ releases[r.idx] = r.ref
              /\ r.phase = "tag" =>
                    /\ r.idx <= 20 /\ r.idx <= Len(tags) /\ tags[r.idx] = r.ref
                    /\ TagAllowed(r.ref)
    /\ \A i \in DOMAIN origin :
          /\ origin[i].raw # S_feature_x
          /\ origin[i].phase = "tag" => TagAllowed(origin[i].raw)
    /\ pc = "get_tags" =>
          /\ TagAllowed(S_v1_0_0) /\ TagAllowed(S_release_4_18) /\ TagAllowed(S_4_19)
          /\ ~TagAllowed(S_feature_x)

\* The 10th release was requested, the 11th release and the 21st tag were
\* left unvisited, and a rejected tag was passed over.
C8_Witness ==
    /\ pc = "done"
    /\ Len(releases) = 11 /\ releases[11] \notin processed_refs
    /\ Len(tags) = 21 /\ tags[21] \notin processed_refs
    /\ InSeq(S_feature_x, tags)
    /\ \E k \in DOMAIN requests : requests[k].phase = "release" /\ requests[k].idx = 10

(***************************************************************************)
(* C9: every record, and every data row of the returned table, has a       *)
(* non-empty golang, rest-api or sdk-go value; a ref whose request failed  *)
(* or whose go.mod matches none of the patterns has no record.             *)
(***************************************************************************)
C9_NonEmptyRows ==
    /\ \A i \in DOMAIN version_data :
          \/ version_data[i].golang # <<>>
          \/ version_data[i].rest_api # <<>>
          \/ version_data[i].sdk_go # <<>>
    /\ \A k \in DOMAIN requests :
          requests[k].content \in NoVersionContents =>
             \A i \in DOMAIN origin : origin[i].raw # requests[k].ref
    /\ Returned =>
          LET rows == DataRows
          IN  \A i \in DOMAIN rows :
                 /\ Len(rows[i]) = 5
                 /\ rows[i][2] # <<>> \/ rows[i][3] # <<>> \/ rows[i][4] # <<>>

\* One request failed, one go.mod matched nothing, and the only row has
\* dependency values and no golang value.
C9_Witness ==
    /\ pc = "done"
    /\ \E k \in DOMAIN requests : requests[k].content = None
    /\ \E k \in DOMAIN requests : requests[k].content = Some(M_none)
    /\ LET rows == DataRows
       IN  /\ Len(rows) = 1
           /\ rows[1][2] = <<>> /\ rows[1][3] # <<>> /\ rows[1][4] # <<>>

\* The requests a phase has made.
RequestsOf(ph) == {k \in DOMAIN requests : requests[k].phase = ph}

\* The requests made so far: no ref twice, every requested ref marked
\* (unless its request raised, which ended the run), at most one request
\* per entry of a phase's listing.
C10_Requests ==
    /\ \A k, l \in DOMAIN requests : requests[k].ref = requests[l].ref => k = l
    /\ \A k \in DOMAIN requests :
          IF requests[k].content = KeyError
          THEN k = Len(requests) /\ pc = "crashed"
          ELSE requests[k].ref \in processed_refs
    /\ \A ph \in Phases : Cardinality(RequestsOf(ph)) <= PhaseLen(ph)
    /\ Len(requests) <= 1 + Len(branches) + 10 + 20

(***************************************************************************)
(* C10: processed_refs only grows; no ref's go.mod is requested twice,     *)
(* also after a failed request or one that yielded no version; each phase  *)
(* makes at most one request per entry of its (sliced) listing, so that at *)
(* most 1 + len(branches) + 10 + 20 requests are made.                     *)
(***************************************************************************)
C10_RequestedOnce ==
    /\ []C10_Requests
    /\ [][processed_refs \subseteq processed_refs']_vars

\* A request failed in the branch phase and the same name came up again in
\* the release and tag listings.
C10_Witness ==
    /\ pc = "done"
    /\ \E k \in DOMAIN requests :
          /\ requests[k].content = None
          /\ requests[k].phase = "branch"
          /\ InSeq(requests[k].ref, releases)
          /\ InSeq(requests[k].ref, tags)

=============================================================================
